---- MODULE Spec2Model ----
(***************************************************************************)
(* Model of the equity factor pipeline (02_features/build_factors.py) and  *)
(* of the price-frame validator and the download retry loop                *)
(* (src/data/download_prices.py).                                          *)
(*                                                                         *)
(* A price panel is a sequence of rows [date, ticker, adj_close, volume].  *)
(* Prices and volumes are small naturals or NaN; dates are integer ticks.  *)
(* Derived values are exact: a float is a record [k, n, d] with k one of   *)
(* "nan", "inf" (n its sign) and "fin" (the rational n/d).                 *)
(***************************************************************************)
EXTENDS Integers, Sequences, FiniteSets, TLC

VARIABLES
    pc,            \* where main() stands
    raw,           \* the price table on disk
    fill_pad,      \* whether the installed pandas pads in pct_change
    df_prices,     \* main's df_prices
    factors,       \* main's factors
    factors_file,  \* factors.parquet
    summary_file,  \* factors_summary.json
    err,           \* the error main ended with
    stages,        \* the stages main has entered, in order
    frame,         \* the frame handed to validate_prices_df
    vpd_out,       \* what validate_prices_df returned
    dl_pc,         \* where _download_ticker_group stands
    max_retries,   \* its max_retries argument
    attempt,       \* its loop variable
    outcomes,      \* what each yf.download call so far came back with
    dl_result,     \* the frame it returned
    dl_raised      \* the error it ended with

main_vars == <<pc, raw, fill_pad, df_prices, factors, factors_file, summary_file,
               err, stages>>

vpd_vars == <<frame, vpd_out>>

dl_vars == <<dl_pc, max_retries, attempt, outcomes, dl_result, dl_raised>>

vars == <<main_vars, vpd_vars, dl_vars>>

----------------------------------------------------------------------------
(* Program constants. *)

\* pct_change(periods=20), rolling(20)
Win20 == 20
\* pct_change(periods=60)
Win60 == 60
\* shift(-5)
Fwd5 == 5
\* ticker_count < 10
MinTickers == 10

(* Bounds of the model. *)

\* largest adj_close / volume value of an input row
MaxPrice == 3
\* longest per-ticker history
MaxRows == 68
\* length of the short history (a ticker far below the warm-up)
ShortRows == 5
\* raw date ticks per calendar day (a raw date may carry a time of day)
TicksPerDay == 2

NaN == 0 - 1

----------------------------------------------------------------------------
(* Floats. *)

NaNv == [k |-> "nan", n |-> 0, d |-> 0]
Inf(s) == [k |-> "inf", n |-> s, d |-> 0]
Fin(a, b) == [k |-> "fin", n |-> a, d |-> b]

isna(v) == v.k = "nan"
isfinite(v) == v.k = "fin"

\* a / b - 1 on float64: NaN propagates, x/0 is inf, 0/0 is NaN
RatioMinus1(a, b) ==
    IF a = NaN \/ b = NaN THEN NaNv
    ELSE IF b = 0 THEN (IF a = 0 THEN NaNv ELSE Inf(1))
    ELSE Fin(a - b, b)

RECURSIVE LcmUpTo(_)
\* least common multiple of 1..m: the common denominator of all returns
LcmUpTo(m) ==
    IF m <= 1 THEN 1
    ELSE LET l == LcmUpTo(m - 1)
         IN  CHOOSE c \in {l * j : j \in 1..m} :
                 /\ c % m = 0
                 /\ \A j \in 1..m : (l * j % m = 0) => c <= l * j

RetDen == LcmUpTo(MaxPrice)

RECURSIVE SumSeq(_)
SumSeq(q) == IF q = <<>> THEN 0 ELSE Head(q) + SumSeq(Tail(q))

SetMin(S) == CHOOSE x \in S : \A y \in S : x <= y
SetMax(S) == CHOOSE x \in S : \A y \in S : x >= y

----------------------------------------------------------------------------
(* DataFrame primitives. *)

RECURSIVE ConcatOver(_, _, _)
\* concatenation, in ascending key order, of the rows of s carrying each key
ConcatOver(s, keys, byTicker) ==
    IF keys = {} THEN <<>>
    ELSE LET k == SetMin(keys)
         IN  SelectSeq(s, LAMBDA r : IF byTicker THEN r.ticker = k ELSE r.date = k)
                 \o ConcatOver(s, keys \ {k}, byTicker)

\* df.sort_values(["ticker", "date"], kind="mergesort"): stable
sort_values(df) ==
    LET tks == {df[i].ticker : i \in DOMAIN df}
        byDate(p) == ConcatOver(p, {p[i].date : i \in DOMAIN p}, FALSE)
        RECURSIVE TickerBlocks(_)
        TickerBlocks(ks) ==
            IF ks = {} THEN <<>>
            ELSE LET k == SetMin(ks)
                 IN  byDate(SelectSeq(df, LAMBDA r : r.ticker = k)) \o TickerBlocks(ks \ {k})
    IN  TickerBlocks(tks)

\* the frame taken as one group: no groupby
GroupFirst_frame(s, i) == 1

RECURSIVE GroupFirst(_, _)
\* first index of the groupby("ticker") group of row i of a sorted frame
GroupFirst(s, i) ==
    IF i = 1 \/ s[i - 1].ticker # s[i].ticker THEN i ELSE GroupFirst(s, i - 1)

RECURSIVE GroupLast(_, _)
GroupLast(s, i) ==
    IF i = Len(s) \/ s[i + 1].ticker # s[i].ticker THEN i ELSE GroupLast(s, i + 1)

RECURSIVE ffill(_, _, _)
\* forward fill within the group: the last value present at or before row i
ffill(s, i, first) ==
    IF s[i].adj_close # NaN THEN s[i].adj_close
    ELSE IF i = first THEN NaN
    ELSE ffill(s, i - 1, first)

\* df["adj_close"].pct_change(periods=p), not grouped: row i - p may be
\* another ticker's
pct_change_ungrouped(s, i, first, p, pad) ==
    IF i - p < 1 THEN NaNv
    ELSE RatioMinus1(s[i].adj_close, s[i - p].adj_close)

\* grouped["adj_close"].pct_change(periods=p); pad: the default fill_method
\* of the installed pandas forward-fills first
pct_change(s, i, first, p, pad) ==
    IF i - p < first THEN NaNv
    ELSE IF pad THEN RatioMinus1(ffill(s, i, first), ffill(s, i - p, first))
    ELSE RatioMinus1(s[i].adj_close, s[i - p].adj_close)

\* grouped["adj_close"].shift(-4)
shift_fwd_4(s, i, last) ==
    IF i + Fwd5 - 1 > last THEN NaN ELSE s[i + Fwd5 - 1].adj_close

\* grouped["adj_close"].shift(-5)
shift_fwd(s, i, last) == IF i + Fwd5 > last THEN NaN ELSE s[i + Fwd5].adj_close

----------------------------------------------------------------------------
(* The eight factor columns of row i of the sorted frame s, whose group is *)
(* first..last.                                                            *)

\* the next row's return: shift(-1) / adj_close - 1
ret_1d_lead(s, i, first, pad) ==
    IF i = Len(s) \/ s[i + 1].ticker # s[i].ticker THEN NaNv
    ELSE RatioMinus1(s[i + 1].adj_close, s[i].adj_close)

ret_1d(s, i, first, pad) == pct_change(s, i, first, 1, pad)

ret_fwd_5d(s, i, last) == RatioMinus1(shift_fwd(s, i, last), s[i].adj_close)

mom_20d(s, i, first, pad) == pct_change(s, i, first, Win20, pad)

\* pct_change(periods=20) written twice
mom_60d_short(s, i, first, pad) == pct_change(s, i, first, Win20, pad)

mom_60d(s, i, first, pad) == pct_change(s, i, first, Win60, pad)

\* rolling(20).std() of ret_1d: needs 20 finite observations (inf counts as
\* missing).  The value is recorded by its square, the sample variance
\* n / d, computed on returns scaled by RetDen.
vol_20d(s, i, first, pad) ==
    IF i - (Win20 - 1) < first THEN NaNv
    ELSE LET w == [j \in 1..Win20 |-> ret_1d(s, i - Win20 + j, first, pad)]
         IN  IF \E j \in 1..Win20 : ~isfinite(w[j]) THEN NaNv
             ELSE LET r == [j \in 1..Win20 |-> (RetDen * w[j].n) \div w[j].d]
                      sm == SumSeq(r)
                      sq == SumSeq([j \in 1..Win20 |-> r[j] * r[j]])
                  IN  Fin(Win20 * sq - sm * sm,
                          Win20 * (Win20 - 1) * RetDen * RetDen)

\* (adj_close - rolling mean) / rolling std over the trailing 20 rows.
\* With S the window sum and Q its sum of squares the value is
\* (20x - S) * sqrt(19 / (20 * (20Q - S*S))): recorded as n = 20x - S and
\* d = 20Q - S*S.  A zero-variance window divides by zero.
zscore_20d_price(s, i, first) ==
    IF i - (Win20 - 1) < first THEN NaNv
    ELSE LET w == [j \in 1..Win20 |-> s[i - Win20 + j].adj_close]
         IN  IF \E j \in 1..Win20 : w[j] = NaN THEN NaNv
             ELSE LET sm == SumSeq(w)
                      sq == SumSeq([j \in 1..Win20 |-> w[j] * w[j]])
                      num == Win20 * s[i].adj_close - sm
                      var == Win20 * sq - sm * sm
                  IN  IF var = 0
                      THEN (IF num = 0 THEN NaNv ELSE Inf(IF num > 0 THEN 1 ELSE 0 - 1))
                      ELSE Fin(num, var)

\* rolling(20).mean() of volume
adv_20d(s, i, first) ==
    IF i - (Win20 - 1) < first THEN NaNv
    ELSE LET w == [j \in 1..Win20 |-> s[i - Win20 + j].volume]
         IN  IF \E j \in 1..Win20 : w[j] = NaN THEN NaNv
             ELSE Fin(SumSeq(w), Win20)

\* adv_20d * adj_close
dollar_vol_20d(s, i, first) ==
    LET a == adv_20d(s, i, first)
    IN  IF isna(a) \/ s[i].adj_close = NaN THEN NaNv
        ELSE Fin(a.n * s[i].adj_close, a.d)

\* the row of the frame after all eight columns were assigned
FactorRow(s, i, pad) ==
    LET first == GroupFirst(s, i)
        last == GroupLast(s, i)
    IN  [date |-> s[i].date, ticker |-> s[i].ticker,
         ret_1d |-> ret_1d(s, i, first, pad),
         ret_fwd_5d |-> ret_fwd_5d(s, i, last),
         mom_20d |-> mom_20d(s, i, first, pad),
         mom_60d |-> mom_60d(s, i, first, pad),
         vol_20d |-> vol_20d(s, i, first, pad),
         zscore_20d_price |-> zscore_20d_price(s, i, first),
         adv_20d |-> adv_20d(s, i, first),
         dollar_vol_20d |-> dollar_vol_20d(s, i, first)]

\* the values of the eight factor columns of a row
factor_cols(r) ==
    <<r.ret_1d, r.ret_fwd_5d, r.mom_20d, r.mom_60d, r.vol_20d,
      r.zscore_20d_price, r.adv_20d, r.dollar_vol_20d>>

\* df.dropna(subset=factor_cols, how="all")
dropna_all(t) ==
    SelectSeq(t, LAMBDA r : \E c \in 1..8 : ~isna(factor_cols(r)[c]))

\* df.dropna(subset=factor_cols): keep the rows with no missing factor
dropna(t) ==
    SelectSeq(t, LAMBDA r : \A c \in 1..8 : ~isna(factor_cols(r)[c]))

\* the frame with its eight columns, before the trim
with_factors(df, pad) ==
    LET s == sort_values(df)
    IN  [i \in 1..Len(s) |-> FactorRow(s, i, pad)]

build_factors(df, pad) == dropna(with_factors(df, pad))

----------------------------------------------------------------------------
(* Validators and the loader. *)

\* df.duplicated(subset=["date", "ticker"]).any(): some row repeats the key
\* of an earlier one
duplicated_any(df) ==
    Cardinality({<<df[i].date, df[i].ticker>> : i \in DOMAIN df}) < Len(df)

\* df["date"].is_monotonic_increasing, not grouped
is_monotonic_frame(df, k) ==
    \A i \in 1..(Len(df) - 1) : df[i].date <= df[i + 1].date

\* Series.is_monotonic_increasing of the dates of ticker k, in row order
\* (non-decreasing: equal neighbours pass)
is_monotonic_increasing(df, k) ==
    LET s == SelectSeq(df, LAMBDA r : r.ticker = k)
    IN  \A i \in 1..(Len(s) - 1) : s[i].date <= s[i + 1].date

\* _validate_prices: the error it raises, or "none"
validate_prices(df) ==
    IF duplicated_any(df) THEN "DuplicateKeyError"
    ELSE IF ~(\A k \in {df[i].ticker : i \in DOMAIN df} : is_monotonic_increasing(df, k))
    THEN "OrderError"
    ELSE "none"

\* df["date"].dt.normalize(): strip the time of day
normalize(d) == d - (d % TicksPerDay)

\* _load_prices: the error it raises, or "none"
load_error(r) ==
    IF r.missing_column THEN "SchemaError"
    ELSE IF \E i \in DOMAIN r.rows : r.rows[i].date = NaN THEN "DateError"
    ELSE "none"

\* _load_prices: the frame it returns
load_prices(r) ==
    [i \in DOMAIN r.rows |-> [r.rows[i] EXCEPT !.date = normalize(r.rows[i].date)]]

nunique(t) == Cardinality({t[i].ticker : i \in DOMAIN t})

\* a float below zero
negative(v) == (v.k = "fin" /\ v.n < 0) \/ (v.k = "inf" /\ v.n < 0)

\* _validate_factors: the error it raises, or "none"
validate_factors(f) ==
    IF \E i \in DOMAIN f : negative(f[i].vol_20d) THEN "NegativeVolatilityError"
    ELSE IF \E i \in DOMAIN f : ~isfinite(f[i].zscore_20d_price)
    THEN "NonFiniteValueError"
    ELSE IF nunique(f) < MinTickers THEN "InsufficientTickersError"
    ELSE "none"

\* the summary record main writes
summary(prices, f) ==
    [rows_in |-> Len(prices), rows_out |-> Len(f),
     tickers_in |-> nunique(prices), tickers_out |-> nunique(f),
     min_date |-> IF f = <<>> THEN NaN ELSE SetMin({f[i].date : i \in DOMAIN f}),
     max_date |-> IF f = <<>> THEN NaN ELSE SetMax({f[i].date : i \in DOMAIN f})]

----------------------------------------------------------------------------
(* The price tables the pipeline is run on. *)

\* the calendar day of the i-th trading day: five trading days a week
DayOf(i) == i + 2 * ((i - 1) \div 5)

Patterns == {"cycle", "flat", "flatwin", "zero", "nan", "vnan"}

\* adj_close of the i-th trading day of a history of pattern pat
PriceOf(pat, sp, i) ==
    CASE pat = "flat" -> MaxPrice
      [] pat = "flatwin" /\ i > sp - Win20 /\ i <= sp -> 1
      [] pat = "zero" /\ i = sp -> 0
      [] pat = "nan" /\ i = sp -> NaN
      [] OTHER -> 1 + (i % MaxPrice)

VolumeOf(pat, sp, i) == IF pat = "vnan" /\ i = sp THEN NaN ELSE 1 + (i % 2)

\* the raw rows of one ticker: h = [ticker, n, pat, sp]
History(h, tod) ==
    [i \in 1..h.n |->
        [date |-> DayOf(i) * TicksPerDay + tod, ticker |-> h.ticker,
         adj_close |-> PriceOf(h.pat, h.sp, i),
         volume |-> VolumeOf(h.pat, h.sp, i)]]

RECURSIVE Blocks(_, _)
Blocks(hs, tod) ==
    IF hs = <<>> THEN <<>> ELSE History(Head(hs), tod) \o Blocks(Tail(hs), tod)

Layouts == {"blocks", "bydate", "timed", "dup", "sameday", "swap", "baddate", "nocol"}

\* the raw table: the histories hs laid out as lay says
RawTable(hs, lay) ==
    LET b == Blocks(hs, IF lay = "timed" THEN TicksPerDay - 1 ELSE 0)
        n == Len(b)
        rows ==
            CASE lay = "bydate" -> ConcatOver(b, {b[i].date : i \in DOMAIN b}, FALSE)
              [] lay = "dup" /\ n > 0 -> Append(b, b[n])
              [] lay = "sameday" /\ n > 1 ->
                    [b EXCEPT ![n] = [b[n] EXCEPT !.date = b[n - 1].date + (TicksPerDay - 1)]]
              [] lay = "swap" /\ n > 1 -> [b EXCEPT ![n] = b[n - 1], ![n - 1] = b[n]]
              [] lay = "baddate" /\ n > 0 -> [b EXCEPT ![n] = [b[n] EXCEPT !.date = NaN]]
              [] OTHER -> b
    IN  [missing_column |-> lay = "nocol", rows |-> rows]

\* rows before the first output row of a ticker (the mom_60d warm-up) plus
\* the rows after its last one (the ret_fwd_5d tail) plus one
WarmTotal == Win60 + Fwd5 + 1

Lens == {ShortRows} \cup ((WarmTotal - 1)..MaxRows)

\* rows where a history departs from its pattern: the last row of the
\* window of the first output row's mom_20d, and the first output row
SpecialRows == {Win60 + 1 - Win20, Win60 + 1}

\* the histories of the ticker under study
FocusHistories ==
    {[ticker |-> 2, n |-> n, pat |-> pat, sp |-> 0] :
        n \in Lens, pat \in {"cycle", "flat"}}
    \cup {[ticker |-> 2, n |-> n, pat |-> pat, sp |-> sp] :
        n \in Lens, pat \in Patterns \ {"cycle", "flat"}, sp \in SpecialRows}

Plain(k, n) == [ticker |-> k, n |-> n, pat |-> "cycle", sp |-> 0]

\* the tickers listed before the one under study
Companions == {<<>>, <<Plain(1, WarmTotal + 1)>>, <<Plain(3, ShortRows)>>}

\* the tables of the builder's specification, of one or two tickers: every
\* history after a longer ticker, and every layout of the plain histories
SmallTables ==
    {RawTable(<<Plain(1, WarmTotal + 1), h>>, "blocks") : h \in FocusHistories}
    \cup {RawTable(c \o <<Plain(2, n)>>, lay) :
            c \in Companions, n \in {ShortRows, WarmTotal}, lay \in Layouts}

RECURSIVE Fillers(_, _)
\* m plain tickers numbered from k, each just long enough to survive
Fillers(k, m) ==
    IF m = 0 THEN <<>> ELSE <<Plain(k, WarmTotal)>> \o Fillers(k + 1, m - 1)

\* the tables of the whole pipeline.  Plain histories in every layout, with
\* exactly as many tickers as the last gate asks for; and histories with
\* constant stretches beside as many plain tickers as the gate asks for
FullTables ==
    {RawTable(<<Plain(1, WarmTotal)>> \o Fillers(3, MinTickers - 2) \o <<Plain(2, n)>>, lay) :
        n \in (WarmTotal - 1)..MaxRows,
        lay \in {"blocks", "dup", "baddate", "nocol"}}
    \cup
    {RawTable(<<Plain(1, WarmTotal)>> \o Fillers(3, MinTickers - 1) \o <<h>>, "blocks") :
        h \in {f \in FocusHistories :
                 f.n >= WarmTotal /\ f.pat \in {"flat", "flatwin"}}}

NoSummary ==
    [rows_in |-> 0, rows_out |-> 0, tickers_in |-> 0, tickers_out |-> 0,
     min_date |-> NaN, max_date |-> NaN]

----------------------------------------------------------------------------
(* validate_prices_df.  A date string is <<day, tod>>: a day number and a   *)
(* time of day; day 0, or a time of day past the end of the day, does not  *)
(* parse.                                                                  *)

\* largest day number of a date string
MaxDay == 2
\* longest frame handed to validate_prices_df
MaxFrameRows == 2

expected == <<"date", "ticker", "open", "high", "low", "close", "adj_close", "volume">>

\* pd.to_datetime(.., errors="coerce"): the timestamp in ticks, NaN for NaT
to_datetime(str) ==
    IF str[1] < 1 \/ str[2] >= TicksPerDay THEN NaN
    ELSE str[1] * TicksPerDay + str[2]

\* set(df.columns) != set(expected)
columns_differ_unordered(cols) ==
    {cols[i] : i \in DOMAIN cols} # {expected[i] : i \in DOMAIN expected}

\* list(df.columns) != expected
columns_differ(cols) == cols # expected

\* validate_prices_df: (ok, errors)
validate_prices_df(df) ==
    LET parsed == [i \in DOMAIN df.rows |-> to_datetime(df.rows[i].date)]
        e1 == IF columns_differ(df.columns)
              THEN <<"Dataframe columns do not match required schema.">> ELSE <<>>
        e2 == IF duplicated_any(df.rows)
              THEN <<"Duplicate (date, ticker) rows detected.">> ELSE <<>>
        e3 == IF \E i \in DOMAIN parsed : parsed[i] = NaN
              THEN <<"Invalid date values detected.">>
              ELSE IF \E i \in DOMAIN parsed : normalize(parsed[i]) # parsed[i]
              THEN <<"Date values include time components.">>
              ELSE <<>>
        errors == e1 \o e2 \o e3
    IN  [ran |-> TRUE, ok |-> Len(errors) = 0, errors |-> errors]

\* _download_ticker_group has returned nothing / raised nothing
NoResult == [returned |-> FALSE, empty |-> FALSE, attempt |-> 0]

NoError == [type |-> "none", attempt |-> 0]

NoFrame == [columns |-> <<>>, rows |-> <<>>]
NotRun == [ran |-> FALSE, ok |-> FALSE, errors |-> <<>>]

DateStrings == {<<d, t>> : d \in 0..MaxDay, t \in 0..TicksPerDay}

FrameRows == [date : DateStrings, ticker : 1..2]

\* column lists that hold date and ticker: the schema, two columns swapped,
\* a column missing, a column too many
ColumnLists ==
    {expected,
     <<"ticker", "date", "open", "high", "low", "close", "adj_close", "volume">>,
     <<"date", "ticker", "open", "high", "low", "close", "adj_close">>,
     expected \o <<"dividends">>}

Frames ==
    {[columns |-> c, rows |-> r] :
        c \in ColumnLists,
        r \in UNION {[1..n -> FrameRows] : n \in 0..MaxFrameRows}}

InitVpd ==
    /\ frame \in Frames
    /\ vpd_out = NotRun
    /\ pc = "idle"
    /\ raw = [missing_column |-> FALSE, rows |-> <<>>]
    /\ fill_pad = FALSE
    /\ df_prices = <<>>
    /\ factors = <<>>
    /\ factors_file = "absent"
    /\ summary_file = [written |-> FALSE, body |-> NoSummary]
    /\ err = "none"
    /\ stages = <<>>
    /\ dl_pc = "idle"
    /\ max_retries = 0
    /\ attempt = 0
    /\ outcomes = <<>>
    /\ dl_result = NoResult
    /\ dl_raised = NoError

\* ok, errors = validate_prices_df(df)
ValidateFrame ==
    /\ ~vpd_out.ran
    /\ frame # NoFrame
    /\ vpd_out' = validate_prices_df(frame)
    /\ UNCHANGED <<frame, main_vars, dl_vars>>

NextVpd == ValidateFrame

SpecVpd == InitVpd /\ [][NextVpd]_vars

----------------------------------------------------------------------------
(* main(): one action per stage. *)

InitWith(tables) ==
    /\ pc = "start"
    /\ raw \in tables
    /\ fill_pad \in (IF \E i \in DOMAIN raw.rows : raw.rows[i].adj_close = NaN
                     THEN BOOLEAN ELSE {FALSE})
    /\ df_prices = <<>>
    /\ factors = <<>>
    /\ factors_file = "absent"
    /\ summary_file = [written |-> FALSE, body |-> NoSummary]
    /\ err = "none"
    /\ stages = <<>>
    /\ frame = NoFrame
    /\ vpd_out = NotRun
    /\ dl_pc = "idle"
    /\ max_retries = 0
    /\ attempt = 0
    /\ outcomes = <<>>
    /\ dl_result = NoResult
    /\ dl_raised = NoError

Fail(e) ==
    /\ pc' = "failed"
    /\ err' = e

\* df_prices = _load_prices(prices_path)
Load ==
    /\ pc = "start"
    /\ stages' = Append(stages, "load")
    /\ IF load_error(raw) # "none"
       THEN Fail(load_error(raw)) /\ UNCHANGED df_prices
       ELSE pc' = "loaded" /\ df_prices' = load_prices(raw) /\ UNCHANGED err
    /\ UNCHANGED <<dl_vars, frame, vpd_out, raw, fill_pad, factors, factors_file, summary_file>>

\* _validate_prices(df_prices)
ValidatePrices ==
    /\ pc = "loaded"
    /\ stages' = Append(stages, "validate_prices")
    /\ IF validate_prices(df_prices) # "none"
       THEN Fail(validate_prices(df_prices))
       ELSE pc' = "validated" /\ UNCHANGED err
    /\ UNCHANGED <<dl_vars, frame, vpd_out, raw, fill_pad, df_prices, factors, factors_file, summary_file>>

\* factors = _build_factors(df_prices)
BuildFactors ==
    /\ pc = "validated"
    /\ stages' = Append(stages, "build")
    /\ factors' = build_factors(df_prices, fill_pad)
    /\ pc' = "built"
    /\ UNCHANGED <<dl_vars, frame, vpd_out, raw, fill_pad, df_prices, factors_file, summary_file, err>>

\* _validate_factors(factors)
ValidateFactors ==
    /\ pc = "built"
    /\ stages' = Append(stages, "validate_factors")
    /\ IF validate_factors(factors) # "none"
       THEN Fail(validate_factors(factors))
       ELSE pc' = "checked" /\ UNCHANGED err
    /\ UNCHANGED <<dl_vars, frame, vpd_out, raw, fill_pad, df_prices, factors, factors_file, summary_file>>

\* mkdir of both directories, then factors.to_parquet(output_path): the
\* sink either writes the table or raises and writes nothing
WriteFactors ==
    /\ pc = "checked"
    /\ stages' = Append(stages, "write_factors")
    /\ \/ pc' = "written" /\ factors_file' = "written" /\ UNCHANGED err
       \/ Fail("OSError") /\ UNCHANGED factors_file
    /\ UNCHANGED <<dl_vars, frame, vpd_out, raw, fill_pad, df_prices, factors, summary_file>>

\* the summary record, then summary_path.write_text(...)
WriteSummary ==
    /\ pc = "written"
    /\ stages' = Append(stages, "write_summary")
    /\ \/ /\ pc' = "done"
          /\ summary_file' = [written |-> TRUE, body |-> summary(df_prices, factors)]
          /\ UNCHANGED err
       \/ Fail("OSError") /\ UNCHANGED summary_file
    /\ UNCHANGED <<dl_vars, frame, vpd_out, raw, fill_pad, df_prices, factors, factors_file>>

Init == InitWith(FullTables)

Next ==
    \/ Load
    \/ ValidatePrices
    \/ BuildFactors
    \/ ValidateFactors
    \/ WriteFactors
    \/ WriteSummary

Spec == Init /\ [][Next]_vars

(* _validate_prices and _build_factors on tables of one or two tickers: the *)
(* run of main up to the factor gate.                                       *)

InitBuild == InitWith(SmallTables)

NextBuild ==
    \/ Load
    \/ ValidatePrices
    \/ BuildFactors
    \/ ValidateFactors

SpecBuild == InitBuild /\ [][NextBuild]_vars

----------------------------------------------------------------------------
(* _download_ticker_group: one action for the entry into the loop and one  *)
(* for each pass through its body.                                          *)

\* max_retries: int = 3
DefaultRetries == 3
\* largest max_retries a caller passes
MaxRetries == 4

\* what one yf.download call comes back with: a frame with rows, an empty
\* frame, an Exception, or a BaseException that is no Exception
Outcomes == {"data", "empty", "Exception", "BaseException"}

\* range(1, max_retries + 1)
attempt_range(n) == 1..n

\* if attempt == max_retries
last_attempt_zero_based(a, n) == a = n - 1
last_attempt(a, n) == a = n

\* the error the try block ends with when the call came back with o
raised_in_try(o) == IF o = "empty" THEN "ValueError" ELSE o

\* except Exception
caught(t) == t \in {"ValueError", "Exception"}

\* return pd.DataFrame()
EmptyFrame == [returned |-> TRUE, empty |-> TRUE, attempt |-> 0]

InitRetry ==
    /\ dl_pc = "called"
    /\ max_retries \in (0..MaxRetries) \cup {DefaultRetries}
    /\ attempt = 0
    /\ outcomes = <<>>
    /\ dl_result = NoResult
    /\ dl_raised = NoError
    /\ frame = NoFrame
    /\ vpd_out = NotRun
    /\ pc = "idle"
    /\ raw = [missing_column |-> FALSE, rows |-> <<>>]
    /\ fill_pad = FALSE
    /\ df_prices = <<>>
    /\ factors = <<>>
    /\ factors_file = "absent"
    /\ summary_file = [written |-> FALSE, body |-> NoSummary]
    /\ err = "none"
    /\ stages = <<>>

\* for attempt in range(1, max_retries + 1): the loop takes its first value
\* or, the range being empty, the function falls through to its last line
EnterLoop ==
    /\ dl_pc = "called"
    /\ IF 1 \in attempt_range(max_retries)
       THEN dl_pc' = "try" /\ attempt' = 1 /\ UNCHANGED dl_result
       ELSE dl_pc' = "returned" /\ dl_result' = EmptyFrame /\ UNCHANGED attempt
    /\ UNCHANGED <<max_retries, outcomes, dl_raised, main_vars, vpd_vars>>

\* one pass through the loop body, the yf.download call coming back with o
Attempt(o) ==
    /\ dl_pc = "try"
    /\ outcomes' = Append(outcomes, o)
    /\ IF o = "data"
       THEN /\ dl_pc' = "returned"
            /\ dl_result' = [returned |-> TRUE, empty |-> FALSE, attempt |-> attempt]
            /\ UNCHANGED <<attempt, dl_raised>>
       ELSE IF ~caught(raised_in_try(o)) \/ last_attempt(attempt, max_retries)
       THEN /\ dl_pc' = "raised"
            /\ dl_raised' = [type |-> raised_in_try(o), attempt |-> attempt]
            /\ UNCHANGED <<attempt, dl_result>>
       ELSE IF attempt + 1 \in attempt_range(max_retries)
       THEN /\ attempt' = attempt + 1
            /\ UNCHANGED <<dl_pc, dl_result, dl_raised>>
       ELSE /\ dl_pc' = "returned"
            /\ dl_result' = EmptyFrame
            /\ UNCHANGED <<attempt, dl_raised>>
    /\ UNCHANGED <<max_retries, main_vars, vpd_vars>>

NextRetry ==
    \/ EnterLoop
    \/ \E o \in Outcomes : Attempt(o)

\* a call that has begun runs on, and every yf.download call comes back
SpecRetry == InitRetry /\ [][NextRetry]_vars /\ WF_vars(NextRetry)

----------------------------------------------------------------------------
(* Observations of the state the properties below are stated over. *)

Tickers(df) == {df[i].ticker : i \in DOMAIN df}

\* the rows of ticker k, in row order
RowsOf(t, k) == SelectSeq(t, LAMBDA r : r.ticker = k)

\* the state right after _build_factors returned
Built == pc = "built"

\* the trailing 20-row window ending at row i of the history p is constant
ZeroVariance(p, i) ==
    /\ i >= Win20
    /\ \A j \in (i - Win20 + 1)..i : p[j].adj_close = p[i].adj_close

Present(p) == \A i \in DOMAIN p : p[i].adj_close # NaN /\ p[i].volume # NaN

NonZeroPrices(p) == \A i \in DOMAIN p : p[i].adj_close # 0

NoFlatWindow(p) == \A i \in DOMAIN p : ~ZeroVariance(p, i)

DatesOf(t) == [i \in DOMAIN t |-> t[i].date]

----------------------------------------------------------------------------
\* C1 (as stated): on a validated table whose adj_close and volume values
\* are all present, a ticker with fewer than 66 rows yields no output row
\* and a ticker with 66 + k rows yields exactly k output rows.
C1_AsStated ==
    Built =>
        \A k \in Tickers(df_prices) :
            LET p == RowsOf(df_prices, k)
            IN  Present(p) =>
                    Len(RowsOf(factors, k)) =
                        (IF Len(p) < WarmTotal THEN 0 ELSE Len(p) - WarmTotal)

\* C1 (amended): a ticker with fewer than 66 rows yields no output row; a
\* ticker with 66 + k rows yields at most k + 1 output rows, and exactly
\* k + 1 when its values are present, its prices are not zero and none of
\* its trailing 20-row price windows is constant.
C1_SurvivalRule ==
    Built =>
        \A k \in Tickers(df_prices) :
            LET p == RowsOf(df_prices, k)
                out == Len(RowsOf(factors, k))
            IN  /\ Len(p) < WarmTotal => out = 0
                /\ Len(p) >= WarmTotal => out <= Len(p) - WarmTotal + 1
                /\ (Len(p) >= WarmTotal /\ Present(p) /\ NonZeroPrices(p) /\ NoFlatWindow(p))
                        => out = Len(p) - WarmTotal + 1

\* a ticker of 66 + k rows, k >= 1, with its k + 1 rows, beside a ticker
\* too short to survive
C1_Witness ==
    /\ Built
    /\ \E k \in Tickers(df_prices) :
          LET p == RowsOf(df_prices, k)
          IN  /\ Len(p) > WarmTotal
              /\ Present(p) /\ NonZeroPrices(p) /\ NoFlatWindow(p)
              /\ Len(RowsOf(factors, k)) = Len(p) - WarmTotal + 1
    /\ \E k \in Tickers(df_prices) :
          Len(RowsOf(df_prices, k)) < WarmTotal /\ RowsOf(factors, k) = <<>>

----------------------------------------------------------------------------
\* C2: every output row has its eight factor columns defined, and a row of
\* the frame is dropped if and only if one of its eight columns is missing.
C2_Density ==
    Built =>
        LET t == with_factors(df_prices, fill_pad)
            defined(r) == \A c \in 1..8 : ~isna(factor_cols(r)[c])
        IN  /\ \A j \in DOMAIN factors : defined(factors[j])
            /\ \A i \in DOMAIN t : (\E j \in DOMAIN factors : factors[j] = t[i]) <=> defined(t[i])
            /\ Len(factors) = Cardinality({i \in DOMAIN t : defined(t[i])})

\* a row whose only missing column is the z-score was dropped, and another
\* row of the same ticker was kept
C2_Witness ==
    /\ Built
    /\ LET t == with_factors(df_prices, fill_pad)
       IN  \E i \in DOMAIN t :
              /\ isna(t[i].zscore_20d_price)
              /\ Cardinality({c \in 1..8 : isna(factor_cols(t[i])[c])}) = 1
              /\ \A j \in DOMAIN factors : factors[j].date # t[i].date \/ factors[j].ticker # t[i].ticker
              /\ \E j \in DOMAIN factors : factors[j].ticker = t[i].ticker

----------------------------------------------------------------------------
\* the validator has run
PricesValidated == Len(stages) >= 2

\* for every ticker the dates are strictly increasing in row order (so no
\* (date, ticker) pair repeats)
StrictlyIncreasingPerTicker(df) ==
    \A i, j \in DOMAIN df :
        (i < j /\ df[i].ticker = df[j].ticker) => df[i].date < df[j].date

KeysDistinct(df) ==
    \A i, j \in DOMAIN df :
        (i < j /\ df[i].ticker = df[j].ticker) => df[i].date # df[j].date

\* C3: _validate_prices rejects a table in which a (date, ticker) pair
\* repeats or in which some ticker's dates are not strictly increasing in
\* row order, accepts every other table, and leaves the frame as loaded.
C3_ValidatorGate ==
    PricesValidated =>
        /\ ~KeysDistinct(df_prices) => (pc = "failed" /\ err = "DuplicateKeyError")
        /\ ~StrictlyIncreasingPerTicker(df_prices) => pc = "failed"
        /\ StrictlyIncreasingPerTicker(df_prices) => err \notin {"DuplicateKeyError", "OrderError"}
        /\ df_prices = load_prices(raw)

\* a table of distinct keys was rejected for its order alone
C3_Witness ==
    /\ PricesValidated
    /\ err = "OrderError"
    /\ KeysDistinct(df_prices)
    /\ Len(df_prices) > 1

----------------------------------------------------------------------------
\* the latest output date of ticker k
MaxOutputDate(k) ==
    LET out == RowsOf(factors, k) IN out[Len(out)].date

\* C7 (as stated): for every ticker that has output rows, the latest output
\* date is the 5th-to-last trading day of its history.
C7_AsStated ==
    Built =>
        \A k \in Tickers(factors) :
            LET p == RowsOf(df_prices, k)
            IN  MaxOutputDate(k) = p[Len(p) - Fwd5 + 1].date

\* C7 (amended): for every ticker that has output rows, the latest output
\* date is no later than the 6th-to-last trading day of its history, the
\* last row with five rows after it; it is that day when the ticker's
\* values are present, its prices are not zero and none of its trailing
\* 20-row price windows is constant.
C7_TailTrim ==
    Built =>
        \A k \in Tickers(factors) :
            LET p == RowsOf(df_prices, k)
                out == RowsOf(factors, k)
            IN  /\ \A j \in DOMAIN out : out[j].date <= p[Len(p) - Fwd5].date
                /\ (Present(p) /\ NonZeroPrices(p) /\ NoFlatWindow(p))
                        => MaxOutputDate(k) = p[Len(p) - Fwd5].date

\* a ticker whose last output row is its 6th-to-last day, beside one whose
\* last output row is earlier, its 6th-to-last row having been trimmed
C7_Witness ==
    /\ Built
    /\ \E k \in Tickers(factors) :
          LET p == RowsOf(df_prices, k)
          IN  /\ Present(p) /\ NonZeroPrices(p) /\ NoFlatWindow(p)
              /\ MaxOutputDate(k) = p[Len(p) - Fwd5].date
              /\ MaxOutputDate(k) < p[Len(p) - Fwd5 + 1].date
    /\ \E k \in Tickers(factors) :
          LET p == RowsOf(df_prices, k)
          IN  MaxOutputDate(k) < p[Len(p) - Fwd5].date

----------------------------------------------------------------------------
\* C10: a ticker of n rows whose adj_close and volume values are present
\* and not zero and whose trailing 20-row price windows are never constant
\* yields exactly its rows 60..n-6 (counted from 0), in order: max(0, n-65)
\* rows, contiguous in trading-day index.
C10_ExactWindow ==
    Built =>
        \A k \in Tickers(df_prices) :
            LET p == RowsOf(df_prices, k)
                n == Len(p)
            IN  (/\ Present(p) /\ NonZeroPrices(p) /\ NoFlatWindow(p)
                 /\ \A i \in DOMAIN p : p[i].volume # 0)
                    => DatesOf(RowsOf(factors, k)) =
                           [j \in 1..(IF n >= WarmTotal THEN n - WarmTotal + 1 ELSE 0)
                               |-> p[Win60 + j].date]

\* a ticker of 68 rows or more yields its rows 60, 61 and 62
C10_Witness ==
    /\ Built
    /\ \E k \in Tickers(df_prices) :
          LET p == RowsOf(df_prices, k)
              out == RowsOf(factors, k)
          IN  /\ Present(p) /\ NonZeroPrices(p) /\ NoFlatWindow(p)
              /\ Len(p) >= WarmTotal + 2
              /\ Len(out) >= 3
              /\ out[1].date = p[Win60 + 1].date
              /\ out[3].date = p[Win60 + 3].date

----------------------------------------------------------------------------
\* the seven columns other than ret_fwd_5d, at row i of the sorted frame s
CausalCols(s, i, pad) ==
    LET first == GroupFirst(s, i)
    IN  <<ret_1d(s, i, first, pad), mom_20d(s, i, first, pad),
          mom_60d(s, i, first, pad), vol_20d(s, i, first, pad),
          zscore_20d_price(s, i, first), adv_20d(s, i, first),
          dollar_vol_20d(s, i, first)>>

LabelCol(s, i) == ret_fwd_5d(s, i, GroupLast(s, i))

\* s without the rows that follow row i in its ticker's history
Truncated(s, i) ==
    LET cut == GroupLast(s, i) - i
    IN  [j \in 1..(Len(s) - cut) |-> IF j <= i THEN s[j] ELSE s[j + cut]]

\* s with the values of the rows that follow row i in its ticker's history
\* replaced by v
Refilled(s, i, v) ==
    LET last == GroupLast(s, i)
    IN  [j \in DOMAIN s |->
            IF j > i /\ j <= last
            THEN [s[j] EXCEPT !.adj_close = v, !.volume = v]
            ELSE s[j]]

\* C6: the seven columns other than ret_fwd_5d read no later row: two
\* tables that agree on a ticker's rows up to row t give them the same
\* values at t, whatever follows t.
C6_NoLookAhead ==
    Built =>
        LET s == sort_values(df_prices)
        IN  \A i \in DOMAIN s :
                LET here == CausalCols(s, i, fill_pad)
                IN  /\ CausalCols(Truncated(s, i), i, fill_pad) = here
                    /\ CausalCols(Refilled(s, i, 0), i, fill_pad) = here
                    /\ CausalCols(Refilled(s, i, NaN), i, fill_pad) = here

\* a row with its seven causal columns defined whose label changes when
\* the rows after it change
C6_Witness ==
    /\ Built
    /\ LET s == sort_values(df_prices)
       IN  \E i \in DOMAIN s :
              /\ \A c \in 1..7 : ~isna(CausalCols(s, i, fill_pad)[c])
              /\ isfinite(LabelCol(s, i))
              /\ LabelCol(Refilled(s, i, 0), i) # LabelCol(s, i)
              /\ CausalCols(Refilled(s, i, 0), i, fill_pad) = CausalCols(s, i, fill_pad)

----------------------------------------------------------------------------
Reverse(q) == [i \in DOMAIN q |-> q[Len(q) + 1 - i]]

\* the frame with its rows in date order, the tickers interleaved
ByDate(df) == ConcatOver(df, {df[i].date : i \in DOMAIN df}, FALSE)

RECURSIVE PerTickerDescending(_, _, _)
\* each ticker's partition built on its own, the results concatenated from
\* the last ticker to the first
PerTickerDescending(df, ks, pad) ==
    IF ks = {} THEN <<>>
    ELSE LET k == SetMax(ks)
         IN  build_factors(RowsOf(df, k), pad) \o PerTickerDescending(df, ks \ {k}, pad)

\* C9: the output rows of a ticker are those built from its rows alone; the
\* output is in ascending (ticker, date) order; and building the partitions
\* one by one in another order and re-sorting, or listing the input rows in
\* another order, gives the same output.
C9_PartitionsIndependent ==
    Built =>
        /\ \A k \in Tickers(df_prices) :
              RowsOf(factors, k) = build_factors(RowsOf(df_prices, k), fill_pad)
        /\ \A j \in 1..(Len(factors) - 1) :
              \/ factors[j].ticker < factors[j + 1].ticker
              \/ /\ factors[j].ticker = factors[j + 1].ticker
                 /\ factors[j].date < factors[j + 1].date
        /\ sort_values(PerTickerDescending(df_prices, Tickers(df_prices), fill_pad)) = factors
        /\ build_factors(Reverse(df_prices), fill_pad) = factors
        /\ build_factors(ByDate(df_prices), fill_pad) = factors

\* two tickers, interleaved in the input, both with output rows
C9_Witness ==
    /\ Built
    /\ Cardinality(Tickers(factors)) = 2
    /\ \E i \in 1..(Len(df_prices) - 2) :
          /\ df_prices[i].ticker > df_prices[i + 1].ticker
          /\ df_prices[i + 1].ticker < df_prices[i + 2].ticker

----------------------------------------------------------------------------
\* the factor validator has run
FactorsValidated == Len(stages) >= 4

\* some row has its other seven columns defined and a constant trailing
\* 20-row price window
ZeroVarianceRow ==
    LET s == sort_values(df_prices)
    IN  \E i \in DOMAIN s :
            LET first == GroupFirst(s, i)
            IN  /\ i - (Win20 - 1) >= first
                /\ \A j \in (i - Win20 + 1)..i :
                      s[j].adj_close = s[i].adj_close /\ s[j].adj_close # NaN
                /\ \A c \in {1, 2, 3, 4, 6, 7} : ~isna(CausalCols(s, i, fill_pad)[c])
                /\ ~isna(LabelCol(s, i))

\* C4 (as stated): when such a row exists the run fails at the factor
\* validator with the non-finite-value error; and the z-score of every
\* output row is finite.
C4_AsStated ==
    /\ (FactorsValidated /\ ZeroVarianceRow)
            => (pc = "failed" /\ err = "NonFiniteValueError")
    /\ factors_file = "written"
            => \A j \in DOMAIN factors : isfinite(factors[j].zscore_20d_price)

----------------------------------------------------------------------------
StageOrder ==
    <<"load", "validate_prices", "build", "validate_factors",
      "write_factors", "write_summary">>

\* every stage before the write has passed on the data at hand
UpstreamPassed ==
    /\ load_error(raw) = "none"
    /\ df_prices = load_prices(raw)
    /\ validate_prices(df_prices) = "none"
    /\ factors = build_factors(df_prices, fill_pad)
    /\ validate_factors(factors) = "none"

\* C5 (as stated): the stages run in order, none after a failure; nothing
\* is written unless every upstream stage passed; and no failure leaves the
\* factor file behind.
C5_AsStated ==
    /\ stages = SubSeq(StageOrder, 1, Len(stages))
    /\ pc = "failed" => ~ENABLED Next
    /\ factors_file = "written" => (Len(stages) >= 5 /\ UpstreamPassed)
    /\ summary_file.written => (factors_file = "written" /\ pc = "done")
    /\ pc = "failed" => factors_file = "absent"

----------------------------------------------------------------------------
\* C8: validate_prices_df returns ok exactly when it returns no error, and
\* exactly when the column list is the schema in order, no (date, ticker)
\* pair repeats, and every date parses and carries no time of day.
C8_FrameValidator ==
    vpd_out.ran =>
        /\ vpd_out.ok <=> vpd_out.errors = <<>>
        /\ vpd_out.ok <=>
              /\ Len(frame.columns) = 8
              /\ \A c \in 1..8 : frame.columns[c] = expected[c]
              /\ \A i, j \in DOMAIN frame.rows : i # j => frame.rows[i] # frame.rows[j]
              /\ \A i \in DOMAIN frame.rows :
                    /\ frame.rows[i].date[1] >= 1
                    /\ frame.rows[i].date[2] = 0

\* the frame of the second test: one ticker on two days, accepted
C8_Witness ==
    /\ vpd_out.ran
    /\ vpd_out.ok
    /\ Len(frame.rows) = 2
    /\ frame.rows[1].ticker = frame.rows[2].ticker
    /\ frame.rows[1].date # frame.rows[2].date

----------------------------------------------------------------------------
\* _download_ticker_group has returned or raised
DlDone == dl_pc \in {"returned", "raised"}

\* the call the last entry of outcomes stands for failed in a way the loop retries
FailedCall(o) == o \in {"empty", "Exception"}

\* what holds of a call with max_retries >= 1 at every point of its run
RetryDiscipline ==
    (dl_pc # "idle" /\ max_retries >= 1) =>
        LET n == Len(outcomes) IN
        /\ n <= max_retries
        /\ \A i \in 1..(n - 1) : FailedCall(outcomes[i])
        /\ dl_pc = "called" => n = 0
        /\ dl_pc = "try" =>
              /\ attempt = n + 1
              /\ \A i \in 1..n : FailedCall(outcomes[i])
        /\ dl_pc = "returned" =>
              /\ n >= 1
              /\ outcomes[n] = "data"
              /\ dl_result = [returned |-> TRUE, empty |-> FALSE, attempt |-> n]
              /\ dl_raised = NoError
        /\ dl_pc = "raised" =>
              /\ n >= 1
              /\ outcomes[n] # "data"
              /\ FailedCall(outcomes[n]) => n = max_retries
              /\ dl_raised = [type |-> IF outcomes[n] = "empty"
                                       THEN "ValueError" ELSE outcomes[n],
                              attempt |-> n]
              /\ dl_result = NoResult
        /\ (n >= 1 /\ outcomes[n] = "data") => dl_pc = "returned"
        /\ (n = max_retries /\ FailedCall(outcomes[n])) => dl_pc = "raised"

\* C11: a call of _download_ticker_group with max_retries >= 1 makes at most
\* max_retries downloads, goes on to another download only after an empty
\* result or an Exception, returns the frame of the first download that has
\* rows, raises the error of the last download when that one fails (an empty
\* result raising ValueError), never returns an empty frame, and ends.
C11_BoundedRetry ==
    /\ []RetryDiscipline
    /\ (dl_pc = "called" /\ max_retries >= 1) ~> DlDone

\* the default three attempts: an Exception, an empty result, then rows
C11_Witness ==
    /\ max_retries = DefaultRetries
    /\ dl_pc = "returned"
    /\ outcomes = <<"Exception", "empty", "data">>
    /\ dl_result.attempt = DefaultRetries

====
